---- MODULE Spec2Model ----
(***************************************************************************)
(* Model of the in-memory search engine of engines.py / util.py:           *)
(* FuzzySearchEngine construction (_load_corpus, _build_index) and         *)
(* evaluate_query (_validate_query, _clean_string, _get_results,           *)
(* _sort_results).                                                         *)
(*                                                                         *)
(* A Python str is modelled as a sequence of one-character strings.  The   *)
(* alphabet is small but has one member of every character class the code  *)
(* distinguishes: lowercase letters, an uppercase letter, an ASCII         *)
(* punctuation character and whitespace.                                   *)
(***************************************************************************)
EXTENDS Integers, Sequences, FiniteSets, TLC

VARIABLES file, phase, loadError, fields, corpus, index,
          pc, query, sort_by, presort, outcome, data, indexReads

vars == <<file, phase, loadError, fields, corpus, index,
          pc, query, sort_by, presort, outcome, data, indexReads>>

(***************************************************************************)
(* Bounds                                                                  *)
(***************************************************************************)
MaxRecords == 2

MaxQueryLen == 3

(***************************************************************************)
(* Characters and the str methods the engine uses                          *)
(***************************************************************************)
Alphabet == {"a", "s", "A", "!", " "}

Whitespace == {" "}

Punctuation == {"!", "_"}

Letters == {"a", "s", "A"}

Digits == {"1"}

Range(s) == {s[i] : i \in 1..Len(s)}

LowerChar(c) == IF c = "A" THEN "a" ELSE c

lower(s) == [i \in 1..Len(s) |-> LowerChar(s[i])]

IsSpace(c) == c \in Whitespace

IsPunct(c) == c \in Punctuation

RECURSIVE lstrip(_)
lstrip(s) ==
  IF s # <<>> /\ IsSpace(Head(s)) THEN lstrip(Tail(s)) ELSE s

RECURSIVE rstrip(_)
rstrip(s) ==
  IF s # <<>> /\ IsSpace(s[Len(s)]) THEN rstrip(SubSeq(s, 1, Len(s) - 1)) ELSE s

strip(s) == rstrip(lstrip(s))

\* the first whitespace-free run of s (s does not start with whitespace)
RECURSIVE FirstToken(_)
FirstToken(s) ==
  IF s = <<>> \/ IsSpace(Head(s)) THEN <<>>
  ELSE <<Head(s)>> \o FirstToken(Tail(s))

RECURSIVE split(_)
split(s) ==
  LET t == lstrip(s) IN
  IF t = <<>> THEN <<>>
  ELSE LET w == FirstToken(t) IN
       <<w>> \o split(SubSeq(t, Len(w) + 1, Len(t)))

RECURSIVE join(_)
join(cells) ==
  IF cells = <<>> THEN <<>>
  ELSE IF Len(cells) = 1 THEN cells[1]
  ELSE cells[1] \o <<" ">> \o join(Tail(cells))

\* Python's `needle in haystack` for str
Contains(haystack, needle) ==
  \E i \in 1..(Len(haystack) - Len(needle) + 1) :
     SubSeq(haystack, i, i + Len(needle) - 1) = needle

(***************************************************************************)
(* util.make_python_identifier                                             *)
(***************************************************************************)
kwlist == { <<"a", "s">>, <<"i", "s">>, <<"i", "n">>, <<"i", "f">>, <<"o", "r">> }

RECURSIVE CollapseWhitespace(_)
CollapseWhitespace(s) ==
  IF s = <<>> THEN <<>>
  ELSE IF IsSpace(Head(s)) THEN <<"_">> \o CollapseWhitespace(lstrip(s))
  ELSE <<Head(s)>> \o CollapseWhitespace(Tail(s))

IsIdentChar(c) == c \in Letters \cup Digits \cup {"_"}

RECURSIVE StripLeadingNonLetters(_)
StripLeadingNonLetters(s) ==
  IF s # <<>> /\ Head(s) \notin Letters \cup {"_"}
  THEN StripLeadingNonLetters(Tail(s)) ELSE s

RECURSIVE AvoidKeyword(_)
AvoidKeyword(s) ==
  IF s \in kwlist THEN AvoidKeyword(s \o <<"_", "1">>) ELSE s

make_python_identifier(string) ==
  LET s1 == strip(lower(string))
      s2 == CollapseWhitespace(s1)
      s3 == SelectSeq(s2, IsIdentChar)
      s4 == StripLeadingNonLetters(s3)
  IN AvoidKeyword(s4)

(***************************************************************************)
(* The csv files the engine may be constructed from                        *)
(***************************************************************************)
Skiprows == 1

TitleRow == << <<"a">> >>

\* header cells "A s" and "As": they sanitize to a_s and as_1
GoodHeader == << <<"A", " ", "s">>, <<"A", "s">> >>

\* both cells sanitize to a_s
DuplicateHeader == << <<"A", " ", "s">>, <<"a", " ", " ", "s">> >>

EmptyRow == <<>>

Headers == {GoodHeader, DuplicateHeader, EmptyRow}

RowPool ==
  { << <<"a", "s", "a", "s", " ", "a">>,      <<"!", "!", "!", " ", "s">> >>,
    << <<"s", " ", "a">>,                     <<"A", "!", "s">> >>,
    << <<" ", "A", "s", "a", " ", " ", "a">>, <<"a", "a">> >>,
    << <<"a", "a", " ", "s", "a">>,           <<"s", "a", "s", "!">> >> }

ShortRow == << <<"a", "s", "a">> >>

DataRows == RowPool \cup {ShortRow, EmptyRow}

SeqsUpTo(S, n) == UNION {[1..k -> S] : k \in 0..n}

Files ==
  { [readable |-> FALSE, rows |-> <<>>],
    [readable |-> TRUE,  rows |-> <<>>],
    [readable |-> TRUE,  rows |-> TitleRow] }
  \cup
  { [readable |-> TRUE, rows |-> TitleRow \o <<h>> \o d] :
      h \in Headers, d \in SeqsUpTo(DataRows, MaxRecords) }

(***************************************************************************)
(* IndexSearchEngine._load_corpus                                          *)
(***************************************************************************)
\* collections.namedtuple rejects field names that are not identifiers, are
\* keywords, start with an underscore, or occur twice
NamedtupleAccepts(names) ==
  /\ \A i \in 1..Len(names) :
        /\ names[i] # <<>>
        /\ names[i] \notin kwlist
        /\ Head(names[i]) \in Letters
  /\ \A i, j \in 1..Len(names) : names[i] = names[j] => i = j

load_corpus(f, skiprows) ==
  IF ~f.readable
  THEN [error |-> "FileNotFoundError", fields |-> <<>>, corpus |-> <<>>]
  ELSE IF Len(f.rows) < skiprows + 1
  THEN [error |-> "StopIteration", fields |-> <<>>, corpus |-> <<>>]
  ELSE
    LET header == f.rows[skiprows + 1]
        names == [i \in 1..Len(header) |-> make_python_identifier(header[i])]
        documents == SubSeq(f.rows, skiprows + 2, Len(f.rows))
    IN IF ~NamedtupleAccepts(names)
       THEN [error |-> "ValueError", fields |-> <<>>, corpus |-> <<>>]
       ELSE IF \E i \in 1..Len(documents) : Len(documents[i]) # Len(names)
       THEN [error |-> "TypeError", fields |-> <<>>, corpus |-> <<>>]
       ELSE [error |-> "none", fields |-> names, corpus |-> documents]

(***************************************************************************)
(* IndexSearchEngine._clean_string, FuzzySearchEngine._fuzzify,            *)
(* IndexSearchEngine._build_index                                          *)
(***************************************************************************)
NotPunct(c) == ~IsPunct(c)

clean_string(term) == SelectSeq(lower(term), NotPunct)

\* faulty variant: range(4, len(word) + 1), the prefix of length 3 is lost
fuzzify_from_4(word) ==
  [k \in 1..(IF Len(word) >= 4 THEN Len(word) - 3 ELSE 0) |->
      SubSeq(word, 1, k + 3)] \o <<word>>

\* [word[:n] for n in range(3, len(word) + 1)] + [word]
fuzzify(word) ==
  [k \in 1..(IF Len(word) >= 3 THEN Len(word) - 2 ELSE 0) |->
      SubSeq(word, 1, k + 2)] \o <<word>>

\* corpus positions are 0-based, as produced by enumerate()
Positions(c) == 0..(Len(c) - 1)

\* faulty variant: only the first field of the document is indexed
DocTokens_first_field(document) ==
  IF document = <<>> THEN <<>> ELSE split(clean_string(document[1]))

\* the tokens of ' '.join(document) after cleaning
DocTokens(document) == split(clean_string(join(document)))

build_index(c) ==
  LET keys == UNION { Range(fuzzify(w)) :
                        w \in UNION {Range(DocTokens(c[p + 1])) : p \in Positions(c)} }
  IN [x \in keys |->
        {p \in Positions(c) :
           \E w \in Range(DocTokens(c[p + 1])) : x \in Range(fuzzify(w))}]

(***************************************************************************)
(* FuzzySearchEngine._validate_query, IndexSearchEngine._get_results       *)
(***************************************************************************)
MinQueryLen == 3

\* faulty variant: the length check without query.strip()
validate_query_unstripped(q, n) == ~(Len(q) < n)

\* TRUE iff _validate_query returns without raising InvalidQueryError
validate_query(q, n) == ~(Len(strip(q)) < n)

\* faulty variant: self._index.setdefault(term, set()) in place of .get(term, None)
index_setdefault(idx, term) ==
  [match |-> IF term \in DOMAIN idx THEN idx[term] ELSE {},
   index |-> IF term \in DOMAIN idx THEN idx ELSE idx @@ (term :> {})]

\* self._index.get(term, None): the value found (None is modelled as the
\* empty set, both are falsy) and the index as the call leaves it
index_get(idx, term) ==
  [match |-> IF term \in DOMAIN idx THEN idx[term] ELSE {},
   index |-> idx]

\* faulty variant: a term without an index entry contributes an empty set
RECURSIVE Lookups_unmatched_kept(_, _)
Lookups_unmatched_kept(idx, terms) ==
  IF terms = <<>> THEN [matches |-> <<>>, index |-> idx]
  ELSE LET r == index_get(idx, Head(terms))
           rest == Lookups_unmatched_kept(r.index, Tail(terms))
       IN [matches |-> <<r.match>> \o rest.matches, index |-> rest.index]

\* the loop of _get_results: idx_matchs_all, and the index after the reads
RECURSIVE Lookups(_, _)
Lookups(idx, terms) ==
  IF terms = <<>> THEN [matches |-> <<>>, index |-> idx]
  ELSE LET r == index_get(idx, Head(terms))
           rest == Lookups(r.index, Tail(terms))
       IN [matches |-> (IF r.match # {} THEN <<r.match>> ELSE <<>>) \o rest.matches,
           index |-> rest.index]

\* faulty variant: set.union(*idx_matchs_all)
Intersection_union(sets) == UNION Range(sets)

\* set.intersection(*idx_matchs_all), for a non-empty list of sets
Intersection(sets) == {p \in sets[1] : \A i \in 1..Len(sets) : p \in sets[i]}

\* the set idxs of _get_results ([] when no term matched)
get_results(idx, q) ==
  LET found == Lookups(idx, split(q)).matches
  IN IF found = <<>> THEN {} ELSE Intersection(found)

\* the orders in which iterating over a set may materialize it as a list
Orderings(S) == {o \in [1..Cardinality(S) -> S] : Range(o) = S}

(***************************************************************************)
(* FuzzySearchEngine._sort_results                                         *)
(***************************************************************************)
\* 1-based column of the attribute `name` of a Document, 0 if getattr raises
FieldColumn(name) ==
  IF \E i \in 1..Len(fields) : fields[i] = name
  THEN CHOOSE i \in 1..Len(fields) : fields[i] = name
  ELSE 0

\* positions = [i for i, token in enumerate(haystack.split()) if term in token]
TokenPositions(haystack, term) ==
  LET tokens == split(haystack)
  IN {i \in 0..(Len(tokens) - 1) : Contains(tokens[i + 1], term)}

SetMin(S) == CHOOSE m \in S : \A x \in S : m <= x

\* faulty variant: an unstable sort, x goes before the elements of equal key
Insert_unstable(t, x, key) ==
  LET j == Cardinality({i \in 1..Len(t) : key[t[i]] < key[x]})
  IN SubSeq(t, 1, j) \o <<x>> \o SubSeq(t, j + 1, Len(t))

\* sorted(): insert x behind every element whose key is not larger
Insert(t, x, key) ==
  LET j == Cardinality({i \in 1..Len(t) : key[t[i]] <= key[x]})
  IN SubSeq(t, 1, j) \o <<x>> \o SubSeq(t, j + 1, Len(t))

RECURSIVE sorted(_, _)
sorted(s, key) ==
  IF s = <<>> THEN <<>>
  ELSE Insert(sorted(SubSeq(s, 1, Len(s) - 1), key), s[Len(s)], key)

\* lines 183-207 of _sort_results, for the anchor term and the column that
\* getattr(doc, sort_by) reads (0 if it raises AttributeError)
partition_and_sort(term, col, results) ==
  IF results # <<>> /\ col = 0
  THEN [outcome |-> "AttributeError", data |-> <<>>]
  ELSE
    LET text_clean == [p \in Range(results) |-> clean_string(corpus[p + 1][col])]
        applicable(p) == Contains(text_clean[p], term)
        inapplicable(p) == ~applicable(p)
        to_sort == SelectSeq(results, applicable)
        the_rest == SelectSeq(results, inapplicable)
    IN IF \E p \in Range(to_sort) : TokenPositions(text_clean[p], term) = {}
       THEN [outcome |-> "IndexError", data |-> <<>>]
       ELSE
         LET sorter == [p \in Range(to_sort) |->
                          SetMin(TokenPositions(text_clean[p], term))]
         IN [outcome |-> "Results",
             data |-> sorted(to_sort, sorter) \o the_rest]

\* results are lists of corpus positions (each stands for its Document);
\* query.split()[0] raises IndexError on a query without terms
sort_results(q, results, sortby) ==
  IF split(q) = <<>>
  THEN [outcome |-> "IndexError", data |-> <<>>]
  ELSE partition_and_sort(Head(split(q)),
                          FieldColumn(make_python_identifier(sortby)),
                          results)

(***************************************************************************)
(* IndexSearchEngine.evaluate_query                                        *)
(***************************************************************************)
\* `order` is the list _get_results built from the set idxs; sort_by = <<>>
\* stands for the falsy values None and ''
evaluate_query(q, sortby, order) ==
  IF ~validate_query(q, MinQueryLen)
  THEN [outcome |-> "InvalidQueryError", data |-> <<>>, presort |-> <<>>,
        reads |-> 0, index |-> index]
  ELSE
    LET query_clean == clean_string(q)
        looked == Lookups(index, split(query_clean))
        r == IF sortby # <<>> THEN sort_results(query_clean, order, sortby)
             ELSE [outcome |-> "Results", data |-> order]
    IN [outcome |-> r.outcome, data |-> r.data, presort |-> order,
        reads |-> Len(split(query_clean)), index |-> looked.index]

(***************************************************************************)
(* Inputs of evaluate_query                                                *)
(***************************************************************************)
Queries == SeqsUpTo(Alphabet, MaxQueryLen)

\* None, 'A s' (a_s), 'As' (as_1), 's!' (s: not a field)
SortBys == { <<>>, <<"A", " ", "s">>, <<"A", "s">>, <<"s", "!">> }

(***************************************************************************)
(* State machine                                                           *)
(***************************************************************************)
NoCall ==
  /\ query = <<>>
  /\ sort_by = <<>>
  /\ presort = <<>>
  /\ outcome = "none"
  /\ data = <<>>
  /\ indexReads = 0

Init ==
  /\ file \in Files
  /\ phase = "new"
  /\ loadError = "none"
  /\ fields = <<>>
  /\ corpus = <<>>
  /\ index = <<>>
  /\ pc = "idle"
  /\ NoCall

\* IndexSearchEngine.__init__: _load_corpus, then _build_index
Construct ==
  /\ phase = "new"
  /\ LET loaded == load_corpus(file, Skiprows)
     IN IF loaded.error = "none"
        THEN /\ phase' = "ready"
             /\ fields' = loaded.fields
             /\ corpus' = loaded.corpus
             /\ index' = build_index(loaded.corpus)
             /\ UNCHANGED loadError
        ELSE /\ phase' = "failed"
             /\ loadError' = loaded.error
             /\ UNCHANGED <<fields, corpus, index>>
  /\ UNCHANGED <<file, pc, query, sort_by, presort, outcome, data, indexReads>>

\* one call of evaluate_query on the constructed engine
EvaluateQuery ==
  /\ phase = "ready"
  /\ pc = "idle"
  /\ \E q \in Queries, sb \in SortBys :
       \E order \in (IF validate_query(q, MinQueryLen)
                     THEN Orderings(get_results(index, clean_string(q)))
                     ELSE {<<>>}) :
         \E r \in {evaluate_query(q, sb, order)} :
            /\ query' = q
            /\ sort_by' = sb
            /\ presort' = r.presort
            /\ outcome' = r.outcome
            /\ data' = r.data
            /\ indexReads' = r.reads
            /\ index' = r.index
  /\ pc' = "returned"
  /\ UNCHANGED <<file, phase, loadError, fields, corpus>>

\* the caller has consumed the Results object or the exception
Return ==
  /\ pc = "returned"
  /\ pc' = "idle"
  /\ query' = <<>>
  /\ sort_by' = <<>>
  /\ presort' = <<>>
  /\ outcome' = "none"
  /\ data' = <<>>
  /\ indexReads' = 0
  /\ UNCHANGED <<file, phase, loadError, fields, corpus, index>>

Next == Construct \/ EvaluateQuery \/ Return

Spec == Init /\ [][Next]_vars

(***************************************************************************)
(* Vocabulary of the properties                                            *)
(***************************************************************************)
Returned == phase = "ready" /\ pc = "returned"

\* length of q without its leading and trailing whitespace
TrimmedLen(q) ==
  LET solid == {i \in 1..Len(q) : q[i] \notin Whitespace}
  IN IF solid = {} THEN 0
     ELSE (CHOOSE i \in solid : \A j \in solid : j <= i)
          - (CHOOSE i \in solid : \A j \in solid : i <= j) + 1

\* the terms of the normalized query
QueryTerms == split(clean_string(query))

\* the whitespace-delimited tokens of the raw value of field col of record p
RawTokens(p, col) == Range(split(corpus[p + 1][col]))

\* the normalized tokens stored for record p
StoredTokens(p) == Range(DocTokens(corpus[p + 1]))

Returns(p) == outcome = "Results" /\ p \in Range(data)

IndexOf(s, x) == CHOOSE i \in 1..Len(s) : s[i] = x

\* C1: a query whose trimmed length is below 3 fails with InvalidQueryError,
\* with or without sort_by, before any index read and without any result.
C1_ShortQueryRejected ==
  (Returned /\ TrimmedLen(query) < 3) =>
     (outcome = "InvalidQueryError" /\ indexReads = 0 /\ data = <<>>)

C1_Witness ==
  /\ Returned
  /\ Len(query) >= 3
  /\ TrimmedLen(query) < 3
  /\ sort_by # <<>>
  /\ outcome = "InvalidQueryError"

\* C2 as stated: a query equal to any raw whitespace token of length >= 3 of
\* any field of a record returns that record, punctuation-only tokens included.
C2_Original ==
  (Returned /\ sort_by = <<>>) =>
     \A p \in Positions(corpus) : \A col \in 1..Len(fields) :
        (Len(query) >= 3 /\ query \in RawTokens(p, col)) => Returns(p)

\* C2 amended: a query equal to any raw whitespace token of length >= 3 of
\* any field of a record returns that record, provided the token has at least
\* one character that is not punctuation.
C2_TokenSearchable ==
  (Returned /\ sort_by = <<>>) =>
     \A p \in Positions(corpus) : \A col \in 1..Len(fields) :
        ( /\ Len(query) >= 3
          /\ query \in RawTokens(p, col)
          /\ \E i \in 1..Len(query) : query[i] \notin Punctuation )
        => Returns(p)

C2_Witness ==
  /\ Returned
  /\ Len(fields) = 2
  /\ sort_by = <<>>
  /\ \E i \in 1..Len(query) : query[i] \in Punctuation
  /\ \E i \in 1..Len(query) : query[i] = "A"
  /\ \E p \in Positions(corpus) :
        /\ query \in RawTokens(p, 2)
        /\ Returns(p)
        /\ Len(data) < Len(corpus)

\* the normalized tokens stored for any record
AllStoredTokens == UNION {StoredTokens(p) : p \in Positions(corpus)}

ShortKeysAreTokens(tokens) ==
  \A x \in DOMAIN index : Len(x) < 3 => x \in tokens

\* q is one normalized term, as every prefix of a stored token is
IsTerm(q) == split(clean_string(q)) = <<q>>

\* C3: every prefix of length 3..len(w) of a stored token w passes validation
\* and returns every record that has the token w; and every index key shorter
\* than 3 is a whole stored token (Return leaves the index as it is, so the
\* keys are looked at where the engine is idle).
C3_PrefixLaw ==
  /\ (Returned /\ Len(query) >= 3 /\ IsTerm(query)) =>
       \A p \in Positions(corpus) : \A w \in StoredTokens(p) :
          (Len(query) <= Len(w) /\ query = SubSeq(w, 1, Len(query)))
          => /\ outcome # "InvalidQueryError"
             /\ sort_by = <<>> => Returns(p)
  /\ (phase = "ready" /\ pc = "idle") => ShortKeysAreTokens(AllStoredTokens)

C3_Witness ==
  /\ Returned
  /\ sort_by = <<>>
  /\ \E p \in Positions(corpus) : \E w \in StoredTokens(p) :
        /\ Len(query) = 3
        /\ Len(w) > 3
        /\ query = SubSeq(w, 1, 3)
        /\ Returns(p)
  /\ \E x \in DOMAIN index : Len(x) < 3

SortColumn == FieldColumn(make_python_identifier(sort_by))

Anchor == Head(QueryTerms)

\* the normalized text of field col of record p
SortText(p, col) == clean_string(corpus[p + 1][col])

\* 0-based indexes of the tokens that contain the anchor
AnchorTokens(tokens, anchor) ==
  {i \in 0..(Len(tokens) - 1) : Contains(tokens[i + 1], anchor)}

\* 0-based index of the first whitespace token of text that contains the anchor
SortKey(text, anchor) == SetMin(AnchorTokens(split(text), anchor))

\* what C5 speaks of for the record at place i of the sorted result: its
\* place before the sort, whether its field text contains the anchor, its key
SortInfo(i, text, anchor) ==
  [after |-> i,
   before |-> IndexOf(presort, data[i]),
   sortable |-> Contains(text, anchor),
   key |-> IF Contains(text, anchor) THEN SortKey(text, anchor) ELSE 0]

SortedAsClaimed(infos) ==
  \A a, b \in infos :
     a.after < b.after =>
       /\ b.sortable => a.sortable
       /\ b.sortable => a.key <= b.key
       /\ (b.sortable /\ a.key = b.key) => a.before < b.before
       /\ ~a.sortable => a.before < b.before

\* C5: a sorted result is a permutation of the unsorted one: first the
\* records whose normalized field text contains the anchor term, ascending by
\* the index of the first token containing it, equal keys in pre-sort order,
\* then the other records in their pre-sort order.
C5_SortOrder ==
  (Returned /\ outcome = "Results" /\ sort_by # <<>> /\ data # <<>>) =>
     /\ Len(data) = Len(presort)
     /\ Range(data) = Range(presort)
     /\ Len(data) >= 2 =>
          SortedAsClaimed({SortInfo(i, SortText(data[i], SortColumn), Anchor) :
                             i \in 1..Len(data)})

\* two records of equal key whose pre-sort order is not the corpus order
C5_Witness ==
  /\ Returned
  /\ outcome = "Results"
  /\ sort_by # <<>>
  /\ Len(data) >= 2
  /\ data[1] > data[2]
  /\ LET t1 == SortText(data[1], SortColumn)
         t2 == SortText(data[2], SortColumn)
     IN /\ Len(split(t1)) >= 2
        /\ Contains(t1, Anchor)
        /\ Contains(t2, Anchor)
        /\ SortKey(t1, Anchor) = SortKey(t2, Anchor)

\* C6: evaluate_query ends in a result envelope, in InvalidQueryError or in
\* the unknown-field error (AttributeError), never in another failure.
C6_ThreeOutcomes ==
  Returned => outcome \in {"Results", "InvalidQueryError", "AttributeError"}

\* C7: a query that passes validation, evaluated with a sort_by that resolves
\* to no field, fails with the unknown-field error however many records it
\* matched.  (Queries without any normalized term are the subject of C6.)
C7_UnknownFieldRejected ==
  ( /\ Returned
    /\ TrimmedLen(query) >= 3
    /\ QueryTerms # <<>>
    /\ sort_by # <<>>
    /\ make_python_identifier(sort_by) \notin Range(fields) )
  => outcome = "AttributeError"

\* the header row of the file, <<>> if the file has none
HeaderOf(f) == IF Len(f.rows) >= Skiprows + 1 THEN f.rows[Skiprows + 1] ELSE <<>>

DataRowsOf(f) == SubSeq(f.rows, Skiprows + 2, Len(f.rows))

\* C8: loading fails when the file cannot be read, when a data row has a
\* column count different from the header's, or when the header is empty,
\* and then no engine becomes available (any exception raised by the
\* constructor counts as the load error).
C8_LoadFails ==
  ( /\ phase # "new"
    /\ \/ ~file.readable
       \/ HeaderOf(file) = <<>>
       \/ \E i \in 1..Len(DataRowsOf(file)) :
             Len(DataRowsOf(file)[i]) # Len(HeaderOf(file)) )
  => (phase = "failed" /\ loadError # "none")

\* the terms of the query that have an index entry
MatchedTerms == {t \in Range(QueryTerms) : t \in DOMAIN index}

====
